---- MODULE Spec2Model ----
(***************************************************************************)
(* Model of chess_arbiter.py: the perpetual Claude-vs-ChatGPT chess match. *)
(* game_loop drives one game at a time through play_move, keeps the match  *)
(* state in the global dict `state`, and writes it to a remote store       *)
(* (JSONBin) with save_state after every step.                             *)
(*                                                                         *)
(* The chess library is outside the repository; the board is a small game  *)
(* graph with the interface the program uses (legal_moves, parse_san,      *)
(* push, fen, set_fen, is_game_over, result).  A board carries its move    *)
(* stack: one node of the graph is drawn by repetition, and its FEN sets   *)
(* up a board of the same position on which the game is not over.         *)
(*                                                                         *)
(* Time is counted in whole seconds.  The program stamps in milliseconds   *)
(* (int(time.time() * 1000)); thirty days of milliseconds do not fit the   *)
(* model checker's integers, so stamps are kept in seconds.  In Spec the    *)
(* clock moves only across the inter-game sleep; ThinkSpec and DailySpec   *)
(* run _record_think and update_daily_data alone and move it freely;       *)
(* LiveSpec is Spec with the loop scheduled fairly.                        *)
(***************************************************************************)
EXTENDS Integers, Sequences, FiniteSets, TLC

VARIABLES
  state,      \* the global dict `state` (in memory)
  store,      \* the JSONBin record: << >> when absent, <<record>> otherwise
  board,      \* game_loop's local `board` (a node of the game graph, NoBoard before it is built)
  pc,         \* position of game_loop
  move_san,   \* play_move's `move_san` (the proposal under examination)
  attempt,    \* play_move's loop variable `attempt`
  now,        \* the wall clock, in seconds
  crashes,    \* number of process restarts so far
  call,       \* history of the running play_move call (entry position, counters)
  ret,        \* << >> or <<the tuple play_move returned, with the move it pushed>>
  err,        \* where the exception caught at line 215 was raised ("none" if none)
  faults,     \* number of store faults so far (failed requests, damaged records)
  handed,     \* << >> or <<the state this process last passed to save_state>>
  probe       \* history used by the stand-alone runs of _record_think and update_daily_data

vars == <<state, store, board, pc, move_san, attempt, now, crashes, call, ret, err, faults, handed, probe>>

----------------------------------------------------------------------------
(* Bounds of the model *)

MaxGames == 1        \* games whose plies are played; a later game is entered, not played
MaxCrashes == 1      \* process restarts
MaxFaults == 1       \* store faults: failed GET or PUT, damaged record
MaxThink == 4        \* recorded Move Source answers per side in Spec
MaxCalls == 3        \* _record_think calls in ThinkSpec
MaxDailyGames == 16  \* completed games in DailySpec
MaxPerDay == 2       \* completed games on one day in DailySpec

(* Program constants *)

MaxRetries == 3                      \* play_move(board, move_san, max_retries=3)
Delay == 600                         \* get_delay()
KeepDays == 14                       \* daily[-14:]
HistoryDays == 30                    \* 30 * 24 * 3600 * 1000, in days
DaySeconds == 86400                  \* 24 * 3600
YearDays == 365                      \* period of the "%d/%m" label (leap days aside)

HistorySeconds == HistoryDays * DaySeconds

----------------------------------------------------------------------------
(* The Board Adapter: a game graph standing for python-chess *)

NoBoard == 0 - 1
StartNode == 0
Nodes == 0 .. 7

\* Every move of the graph: the node it is legal in, its SAN, its origin and
\* destination squares (file, rank), and the node it leads to.
Moves ==
  { [src |-> 0, san |-> "e4",  from |-> <<"e", "2">>, to |-> <<"e", "4">>, dst |-> 1],
    [src |-> 0, san |-> "Qh5", from |-> <<"d", "1">>, to |-> <<"h", "5">>, dst |-> 2],
    [src |-> 1, san |-> "e5",  from |-> <<"e", "7">>, to |-> <<"e", "5">>, dst |-> 3],
    [src |-> 1, san |-> "Nf6", from |-> <<"g", "8">>, to |-> <<"f", "6">>, dst |-> 4],
    [src |-> 4, san |-> "Kd2", from |-> <<"e", "1">>, to |-> <<"d", "2">>, dst |-> 4],
    [src |-> 1, san |-> "Nc6", from |-> <<"b", "8">>, to |-> <<"c", "6">>, dst |-> 5],
    [src |-> 6, san |-> "Qh5", from |-> <<"d", "1">>, to |-> <<"h", "5">>, dst |-> 7] }

\* Move.null(): what parse_san returns for "--"; never legal.
NullMove == [src |-> NoBoard, san |-> "--", from |-> <<"0", "0">>, to |-> <<"0", "0">>,
             dst |-> NoBoard]

\* move.uci(): the characters of the origin square, then of the destination square
Uci(m) == m.from \o m.to

\* board.turn == chess.WHITE
WhiteToMove(b) == b \in {0, 3, 4, 5, 6}

\* board.legal_moves
LegalMoves(b) == { m \in Moves : m.src = b }

\* Node 2: black is checkmated; node 3: white is checkmated; node 4: drawn by
\* insufficient material, a finished game in which moves are still legal.
\* Node 5: drawn by fivefold repetition, which is_game_over() finds in the move
\* stack of the board; node 6 is the same position on a board without that
\* history, where the game is not over; node 7: black is checkmated from there.
IsGameOverNever(b) == FALSE
IsGameOver(b) == b \in {2, 3, 4, 5, 7}

\* board.result()
Result(b) ==
  IF b \in {2, 7} THEN "1-0" ELSE IF b = 3 THEN "0-1" ELSE IF b \in {4, 5} THEN "1/2-1/2" ELSE "*"

\* board.push(move)
Push(b, m) == m.dst

\* chess.STARTING_FEN and board.fen()
STARTING_FEN == "rnbqkbnr/pppppppp/8/8/8/8/PPPPPPPP/RNBQKBNR w KQkq - 0 1"
Fen(b) ==
  IF b = 0 THEN STARTING_FEN
  ELSE IF b = 1 THEN "rnbqkbnr/pppppppp/8/8/4P3/8/PPPP1PPP/RNBQKBNR b KQkq - 0 1"
  ELSE IF b = 2 THEN "mate: black to move, white has won"
  ELSE IF b = 3 THEN "mate: white to move, black has won"
  ELSE IF b = 4 THEN "bare kings: white to move"
  ELSE IF b \in {5, 6} THEN "repeated position: white to move"
  ELSE "mate after the repetition: black to move, white has won"

\* board.set_fen(fen): raises ValueError on text that is no FEN; the board it
\* sets up has the position of the FEN and an empty move stack
FenParses(f) == \E n \in Nodes : Fen(n) = f
SetFen(f) == CHOOSE n \in Nodes : Fen(n) = f /\ n # 5

----------------------------------------------------------------------------
(* Move Source answers: texts as sequences of tokens (a SAN word, a mark, a blank) *)

Texts ==
  { <<"e4">>,                      \* legal in the starting position
    <<" ", "Qh5", "!", "?", " ">>, \* legal there once cleaned
    <<"e5", "+">>,                 \* legal for black after e4, with a check mark
    <<"--">> }                     \* the null move: parses, never legal

ElapsedSet == {2}                  \* elapsed_ms of a Move Source call in Spec
ProbeElapsed == {1, 2}             \* elapsed_ms of a call in ThinkSpec

Players == {"claude", "gpt"}

\* str.replace(c, "") for every c in chars
RemoveChars(t, chars) == SelectSeq(t, LAMBDA c : c \notin chars)

\* str.strip()
RECURSIVE LStrip(_)
LStrip(t) == IF t # << >> /\ Head(t) = " " THEN LStrip(Tail(t)) ELSE t
RECURSIVE RStrip(_)
RStrip(t) == IF t # << >> /\ t[Len(t)] = " " THEN RStrip(SubSeq(t, 1, Len(t) - 1)) ELSE t
Strip(t) == LStrip(RStrip(t))

\* line 133: move_san.replace("?", "").replace("!", "").strip()
CleanStripOnly(text) == Strip(text)
Clean(text) == Strip(RemoveChars(text, {"?", "!"}))

\* board.parse_san(clean): the null move for "--"; otherwise one SAN word with at
\* most one trailing check mark, matched against the legal moves; ValueError otherwise.
ParseSan(b, t) ==
  IF t = <<"--">> THEN [ok |-> TRUE, move |-> NullMove]
  ELSE LET core == IF t # << >> /\ t[Len(t)] \in {"+", "#"}
                   THEN SubSeq(t, 1, Len(t) - 1) ELSE t
           cands == { m \in LegalMoves(b) : <<m.san>> = core }
       IN IF cands = {} THEN [ok |-> FALSE, move |-> NullMove]
          ELSE [ok |-> TRUE, move |-> CHOOSE m \in cands : TRUE]

\* lines 131-142: the proposal is accepted iff it parses and the move is legal
Accepts(b, text) ==
  LET p == ParseSan(b, Clean(text)) IN p.ok /\ p.move \in LegalMoves(b)

\* lines 136-140 and 154-157: the tuple returned for a pushed move
ReturnOf(san, m) ==
  [san |-> san, from_sq |-> SubSeq(Uci(m), 1, 2), to_sq |-> SubSeq(Uci(m), 3, 4), move |-> m]

\* line 153: the moves random.choice draws from
FallbackMovesAny(b) == Moves
FallbackMoves(b) == LegalMoves(b)

----------------------------------------------------------------------------
(* Match State *)

PlayerOf(b) == IF WhiteToMove(b) THEN "claude" ELSE "gpt"
ColorOf(b) == IF WhiteToMove(b) THEN "white" ELSE "black"
OtherColorOf(b) == IF WhiteToMove(b) THEN "black" ELSE "white"

\* lines 35-51 (start_date is never written by the loop and is left out)
DefaultState ==
  [ fen |-> STARTING_FEN, moves |-> << >>, game_number |-> 1,
    scores |-> [claude |-> 0, gpt |-> 0, draws |-> 0],
    total_moves |-> 0, turn |-> "white", last_move |-> << >>,
    daily_data |-> << >>, status |-> "playing", next_game_at |-> << >>,
    think_times |-> [p \in Players |-> [avg |-> 0, total |-> 0, count |-> 0, history |-> << >>]] ]

\* line 31: [e for e in t["history"] if e["ts"] >= cutoff]
PruneStrict(h, cutoff) == SelectSeq(h, LAMBDA e : e.ts > cutoff)
Prune(h, cutoff) == SelectSeq(h, LAMBDA e : e.ts >= cutoff)

\* lines 23-25: total, count and avg of one side after one more sample
TallyCeil(t, ms) ==
  [t EXCEPT !.total = t.total + ms, !.count = t.count + 1,
            !.avg = (t.total + ms + t.count) \div (t.count + 1)]
Tally(t, ms) ==
  [t EXCEPT !.total = t.total + ms, !.count = t.count + 1,
            !.avg = (t.total + ms) \div (t.count + 1)]

\* lines 21-31: _record_think without its save; t1 and t2 are its two clock reads
RecordThink(s, player, ms, t1, t2) ==
  LET t == Tally(s.think_times[player], ms)
      h == Append(t.history, [ts |-> t1, ms |-> ms])
  IN [s EXCEPT !.think_times[player] = [t EXCEPT !.history = Prune(h, t2 - HistorySeconds)]]

\* line 161: datetime.now().strftime("%d/%m"): day and month, no year
Today(t) == (t \div DaySeconds) % YearDays

\* lines 162-168
LastN(q, n) == IF Len(q) <= n THEN q ELSE SubSeq(q, Len(q) - n + 1, Len(q))
UpdateDailyData(daily, today) ==
  LET d == IF daily # << >> /\ daily[Len(daily)].label = today
           THEN [daily EXCEPT ![Len(daily)].count = @ + 1]
           ELSE Append(daily, [label |-> today, count |-> 1])
  IN LastN(d, KeepDays)

\* lines 227-235
ScoreBoth(scores, result) ==
  [scores EXCEPT !.claude = @ + 1, !.gpt = @ + 1]
Score(scores, result) ==
  IF result = "1-0" THEN [scores EXCEPT !.claude = @ + 1]
  ELSE IF result = "0-1" THEN [scores EXCEPT !.gpt = @ + 1]
  ELSE [scores EXCEPT !.draws = @ + 1]

\* lines 224-245: the end of a game
FinishGameKeepLog(s, b, t) ==
  [s EXCEPT !.scores = Score(s.scores, Result(b)),
            !.daily_data = UpdateDailyData(s.daily_data, Today(t)),
            !.game_number = @ + 1, !.fen = STARTING_FEN,
            !.last_move = << >>, !.status = "finished"]
FinishGame(s, b, t) ==
  [s EXCEPT !.scores = Score(s.scores, Result(b)),
            !.daily_data = UpdateDailyData(s.daily_data, Today(t)),
            !.game_number = @ + 1, !.moves = << >>, !.fen = STARTING_FEN,
            !.last_move = << >>, !.status = "finished"]

\* lines 208-212: the state after a resolved ply; b is the board before the move
AfterMoveUncounted(s, b, r) ==
  [s EXCEPT !.fen = Fen(Push(b, r.move)),
            !.last_move = <<[from |-> r.from_sq, to |-> r.to_sq]>>,
            !.moves = Append(@, [san |-> r.san, color |-> ColorOf(b)]),
            !.turn = OtherColorOf(b)]
AfterMove(s, b, r) ==
  [s EXCEPT !.fen = Fen(Push(b, r.move)),
            !.last_move = <<[from |-> r.from_sq, to |-> r.to_sq]>>,
            !.total_moves = @ + 1,
            !.moves = Append(@, [san |-> r.san, color |-> ColorOf(b)]),
            !.turn = OtherColorOf(b)]

\* line 73: state.update(saved), a shallow overwrite key by key
Merge(s, st) ==
  IF st = << >> THEN s
  ELSE [k \in DOMAIN s |-> IF k \in DOMAIN st[1] THEN st[1][k] ELSE s[k]]

----------------------------------------------------------------------------
(* The program: game_loop, with play_move and the Move Source wrappers inlined *)

NoCall == [pos |-> NoBoard, attempts |-> 0, requeries |-> 0,
           untried |-> FALSE, fallback |-> FALSE]
NoProbe == [calls |-> << >>, games |-> 0, day |-> 0, onDay |-> 0]

Init ==
  /\ state = DefaultState
  /\ store = << >>
  /\ board = NoBoard
  /\ pc = "load"
  /\ move_san = << >>
  /\ attempt = 0
  /\ now = 0
  /\ crashes = 0
  /\ call = NoCall
  /\ ret = << >>
  /\ err = "none"
  /\ faults = 0
  /\ handed = << >>
  /\ probe = NoProbe

\* lines 61-65: save_state() of the state s; a failed PUT is logged and ignored
SaveState(s) ==
  /\ handed' = <<s>>
  /\ \/ /\ store' = <<s>>
        /\ faults' = faults
     \/ /\ faults < MaxFaults
        /\ store' = store
        /\ faults' = faults + 1

\* lines 67-78 and 172: load_state(); a failed GET leaves the defaults in place
LoadState ==
  /\ pc = "load"
  /\ \/ /\ state' = Merge(state, store)
        /\ faults' = faults
     \/ /\ faults < MaxFaults
        /\ state' = state
        /\ faults' = faults + 1
  /\ pc' = "top"
  /\ UNCHANGED <<store, board, move_san, attempt, now, crashes, call, ret, err, handed, probe>>

\* lines 176-186: build the board, resuming the saved position if a game is in progress
ResumeBoardFresh(s) == StartNode
ResumeBoard(s) ==
  IF s.fen # STARTING_FEN /\ s.status = "playing" /\ FenParses(s.fen)
  THEN SetFen(s.fen) ELSE StartNode

LoopTop ==
  /\ pc = "top"
  /\ board' = ResumeBoard(state)
  /\ state' = [state EXCEPT !.status = "playing"]
  /\ pc' = "check"
  /\ UNCHANGED <<store, move_san, attempt, now, crashes, call, ret, err, faults, handed, probe>>

\* line 188, condition false: the game is over
GameOver ==
  /\ pc = "check"
  /\ IsGameOver(board)
  /\ pc' = "terminal"
  /\ UNCHANGED <<state, store, board, move_san, attempt, now, crashes, call, ret, err, faults, handed, probe>>

\* lines 193-194: the turn and the position of the board b
PublishTurnOnly(s, b) == [s EXCEPT !.turn = ColorOf(b)]
Publish(s, b) == [s EXCEPT !.turn = ColorOf(b), !.fen = Fen(b)]

\* lines 188-195: publish turn and position before the Move Source is asked
TurnPersist ==
  /\ pc = "check"
  /\ ~IsGameOver(board)
  /\ state.game_number <= MaxGames
  /\ state' = Publish(state, board)
  /\ SaveState(state')
  /\ pc' = "ask"
  /\ call' = NoCall
  /\ ret' = << >>
  /\ err' = "none"
  /\ UNCHANGED <<board, move_san, attempt, now, crashes, probe>>

RecordedUnsaved(player, ms) ==
  /\ state.think_times[player].count < MaxThink
  /\ state' = RecordThink(state, player, ms, now, now)
  /\ UNCHANGED <<store, faults, handed>>

\* lines 86-125: ask_claude / ask_gpt for the side `player`.  The API call raises
\* (outcome "down"), or answers; an answer is timed and recorded by _record_think
\* (with its save) before the text is taken out of the response, which raises on
\* an empty response (outcome "empty") and otherwise yields the text.
Recorded(player, ms) ==
  /\ state.think_times[player].count < MaxThink
  /\ state' = RecordThink(state, player, ms, now, now)
  /\ SaveState(state')

\* lines 199-203 and 215-218: the first query of a ply
AskFirst ==
  /\ pc = "ask"
  /\ \/ /\ pc' = "backoff"
        /\ err' = "ask"
        /\ UNCHANGED <<state, store, move_san, attempt, call, faults, handed>>
     \/ \E ms \in ElapsedSet :
          /\ Recorded(PlayerOf(board), ms)
          /\ pc' = "backoff"
          /\ err' = "ask"
          /\ UNCHANGED <<move_san, attempt, call>>
     \/ \E ms \in ElapsedSet, text \in Texts :
          /\ Recorded(PlayerOf(board), ms)
          /\ move_san' = text
          /\ attempt' = 0
          /\ call' = [NoCall EXCEPT !.pos = board]
          /\ pc' = "play"
          /\ err' = "none"
  /\ UNCHANGED <<board, now, crashes, ret, probe>>

\* lines 205-213: play_move has returned r; game_loop records the ply and saves
Resolved(r) ==
  /\ board' = Push(board, r.move)
  /\ ret' = <<r>>
  /\ state' = AfterMove(state, board, r)
  /\ SaveState(state')
  /\ pc' = "delay"

\* lines 130-140: an attempt that accepts the proposal
PlayAccept ==
  /\ pc = "play"
  /\ attempt < MaxRetries
  /\ Accepts(board, move_san)
  /\ Resolved(ReturnOf(Clean(move_san), ParseSan(board, Clean(move_san)).move))
  /\ call' = [call EXCEPT !.attempts = @ + 1, !.untried = FALSE]
  /\ UNCHANGED <<move_san, attempt, now, crashes, err, probe>>

\* lines 130-149: an attempt that rejects the proposal and asks the side to move again;
\* an exception of that call leaves play_move and is caught at line 215
PlayReject ==
  /\ pc = "play"
  /\ attempt < MaxRetries
  /\ ~Accepts(board, move_san)
  /\ \/ /\ pc' = "backoff"
        /\ err' = "requery"
        /\ call' = [call EXCEPT !.attempts = @ + 1, !.untried = FALSE]
        /\ UNCHANGED <<state, store, move_san, attempt, faults, handed>>
     \/ \E ms \in ElapsedSet :
          /\ Recorded(PlayerOf(board), ms)
          /\ pc' = "backoff"
          /\ err' = "requery"
          /\ call' = [call EXCEPT !.attempts = @ + 1, !.untried = FALSE]
          /\ UNCHANGED <<move_san, attempt>>
     \/ \E ms \in ElapsedSet, text \in Texts :
          /\ Recorded(PlayerOf(board), ms)
          /\ move_san' = text
          /\ attempt' = attempt + 1
          /\ call' = [call EXCEPT !.attempts = @ + 1, !.requeries = @ + 1, !.untried = TRUE]
          /\ pc' = "play"
          /\ err' = "none"
  /\ UNCHANGED <<board, now, crashes, ret, probe>>

\* lines 151-157: the random legal move; random.choice raises on an empty list
PlayFallback ==
  /\ pc = "play"
  /\ attempt >= MaxRetries
  /\ IF FallbackMoves(board) = {}
     THEN /\ pc' = "backoff"
          /\ err' = "fallback"
          /\ UNCHANGED <<state, store, board, ret, call, faults, handed>>
     ELSE /\ \E m \in FallbackMoves(board) : Resolved(ReturnOf(<<m.san>>, m))
          /\ call' = [call EXCEPT !.fallback = TRUE]
          /\ err' = "none"
  /\ UNCHANGED <<move_san, attempt, now, crashes, probe>>

\* line 221: time.sleep(3)
MoveDelay ==
  /\ pc = "delay"
  /\ pc' = "check"
  /\ UNCHANGED <<state, store, board, move_san, attempt, now, crashes, call, ret, err, faults, handed, probe>>

\* lines 215-218: time.sleep(10); continue
BackoffForfeits ==
  /\ pc = "backoff"
  /\ pc' = "terminal"
  /\ UNCHANGED <<state, store, board, move_san, attempt, now, crashes, call, ret, err, faults, handed, probe>>
BackoffHalts ==
  /\ pc = "backoff"
  /\ pc' = "halted"
  /\ UNCHANGED <<state, store, board, move_san, attempt, now, crashes, call, ret, err, faults, handed, probe>>
Backoff ==
  /\ pc = "backoff"
  /\ pc' = "check"
  /\ UNCHANGED <<state, store, board, move_san, attempt, now, crashes, call, ret, err, faults, handed, probe>>

\* lines 224-246: score the game, roll the day, reset for the next game, save
EndGame ==
  /\ pc = "terminal"
  /\ state' = FinishGame(state, board, now)
  /\ SaveState(state')
  /\ pc' = "schedule"
  /\ UNCHANGED <<board, move_san, attempt, now, crashes, call, ret, err, probe>>

\* lines 249-252
ScheduleNext ==
  /\ pc = "schedule"
  /\ state' = [state EXCEPT !.next_game_at = <<now + Delay>>]
  /\ SaveState(state')
  /\ pc' = "sleep"
  /\ UNCHANGED <<board, move_san, attempt, now, crashes, call, ret, err, probe>>

\* lines 254-256: time.sleep(delay), then clear next_game_at and save
WakeUp ==
  /\ pc = "sleep"
  /\ now' = now + Delay
  /\ state' = [state EXCEPT !.next_game_at = << >>]
  /\ SaveState(state')
  /\ pc' = "top"
  /\ UNCHANGED <<board, move_san, attempt, crashes, call, ret, err, probe>>

\* The process dies and is started again (lines 35-51 and 290-293): memory is lost,
\* the store is not.
Crash ==
  /\ pc # "load"
  /\ crashes < MaxCrashes
  /\ crashes' = crashes + 1
  /\ state' = DefaultState
  /\ board' = NoBoard
  /\ pc' = "load"
  /\ move_san' = << >>
  /\ attempt' = 0
  /\ call' = NoCall
  /\ ret' = << >>
  /\ err' = "none"
  /\ handed' = << >>
  /\ UNCHANGED <<store, now, faults, probe>>

\* The stored record is damaged while the process is down: its fen is no FEN any
\* more when load_state reads it (the case lines 180-184 recover from).
DamagedFen == "not a FEN"
Damage ==
  /\ pc = "load"
  /\ store # << >>
  /\ FenParses(store[1].fen)
  /\ faults < MaxFaults
  /\ faults' = faults + 1
  /\ store' = <<[store[1] EXCEPT !.fen = DamagedFen]>>
  /\ UNCHANGED <<state, board, pc, move_san, attempt, now, crashes, call, ret, err, handed, probe>>

Next ==
  \/ LoadState
  \/ LoopTop
  \/ GameOver
  \/ TurnPersist
  \/ AskFirst
  \/ PlayAccept
  \/ PlayReject
  \/ PlayFallback
  \/ MoveDelay
  \/ Backoff
  \/ EndGame
  \/ ScheduleNext
  \/ WakeUp
  \/ Crash
  \/ Damage

Spec == Init /\ [][Next]_vars

----------------------------------------------------------------------------
(* Move Resolution: play_move *)

\* The text names the move m: blanks, m's SAN, annotation marks with at most one
\* check mark among them, blanks.
Denotes(m, text) ==
  \E i \in 1 .. Len(text) : \E j \in i .. Len(text) :
    /\ text[i] = m.san
    /\ \A k \in 1 .. (i - 1) : text[k] = " "
    /\ \A k \in (i + 1) .. j : text[k] \in {"!", "?", "+", "#"}
    /\ \A k \in (j + 1) .. Len(text) : text[k] = " "
    /\ Cardinality({ k \in (i + 1) .. j : text[k] \in {"+", "#"} }) <= 1

\* C1, as claimed: no error ever escapes play_move to its caller, whatever the
\* Move Sources return or raise while it re-queries them.
C1_NoErrorEscapes == err \notin {"requery", "fallback"}

\* C1, amended: the only error that escapes play_move is the one a Move Source
\* raises while play_move re-queries it; it escapes before any move is applied
\* (the position is the one play_move was called on and nothing is returned), and
\* the random fallback itself never fails: it always finds the legal-move set non-empty.
C1_OnlyRequeryEscapes ==
  /\ err # "fallback"
  /\ (pc = "play" /\ attempt >= MaxRetries) => FallbackMoves(board) # {}
  /\ err = "requery" => (pc \in {"backoff", "check"} /\ board = call.pos /\ ret = << >>)
  /\ pc = "delay" => ret # << >>

\* A Move Source raised while play_move re-queried it after a rejected attempt.
C1_Witness == pc = "backoff" /\ err = "requery" /\ call.attempts >= 1 /\ board = call.pos

\* C2: when play_move has returned, the position is the one it was called on with
\* exactly the returned move applied, that move was legal in the position of the
\* call, and the returned squares are the move's origin and destination; while
\* play_move runs, the position is the non-terminal position it was called on, whose
\* legal-move set is not empty.
C2_AppliedLegalMove ==
  /\ pc = "delay" =>
       /\ ret # << >>
       /\ ret[1].move \in LegalMoves(call.pos)
       /\ board = ret[1].move.dst
       /\ ret[1].from_sq = ret[1].move.from
       /\ ret[1].to_sq = ret[1].move.to
  /\ pc = "play" =>
       /\ board = call.pos
       /\ ~IsGameOver(board)
       /\ LegalMoves(board) # {}

\* play_move has returned through the random fallback.
C2_Witness == ret # << >> /\ call.fallback /\ pc = "delay" /\ call.attempts = MaxRetries

\* C3: when play_move is about to examine its original proposal and that text names
\* a legal move m of the position, its next step accepts it: m is applied, the
\* returned notation names m and carries no blank or annotation mark, and no Move
\* Source is asked again (no think time is recorded).
C3_Step ==
  (pc = "play" /\ call.attempts = 0 /\ pc' # "load") =>
    \A m \in LegalMoves(board) :
      Denotes(m, move_san) =>
        /\ pc' = "delay"
        /\ board' = m.dst
        /\ ret' # << >>
        /\ ret'[1].move = m
        /\ Denotes(m, ret'[1].san)
        /\ \A k \in 1 .. Len(ret'[1].san) : ret'[1].san[k] \notin {" ", "!", "?"}
        /\ call'.attempts = 1
        /\ call'.requeries = 0
        /\ state'.think_times = state.think_times
C3_FirstAttemptAccepts == [][C3_Step]_vars

\* The original proposal " Qh5!? " was accepted on the first attempt.
C3_Witness ==
  /\ pc = "delay"
  /\ call.attempts = 1
  /\ call.requeries = 0
  /\ ~call.fallback
  /\ move_san = <<" ", "Qh5", "!", "?", " ">>
  /\ ret # << >>
  /\ ret[1].san = <<"Qh5">>

\* C4, as claimed: when the fallback is taken, play_move has made exactly 3 attempts,
\* has re-queried the Move Source exactly 2 times, and every re-queried proposal has
\* been attempted.
C4_ThreeAttemptsTwoRequeries ==
  call.fallback => (call.attempts = 3 /\ call.requeries = 2 /\ ~call.untried)

----------------------------------------------------------------------------
(* Persistence and scoring *)

ScoreSum(s) == s.scores.claude + s.scores.gpt + s.scores.draws

NotBehind(s, t) ==
  /\ s.game_number >= t.game_number
  /\ s.scores.claude >= t.scores.claude
  /\ s.scores.gpt >= t.scores.gpt
  /\ s.scores.draws >= t.scores.draws
  /\ s.total_moves >= t.total_moves

\* C5, as claimed: once load_state has run, the Match State the loop works on has
\* game_number, every score counter and total_moves at least as large as in the
\* state last persisted, whatever the store reads and writes did.
C5_NoHistoryLost == (pc # "load" /\ store # << >>) => NotBehind(state, store[1])

\* C6: in every state written to the store the score counters sum to
\* game_number - 1; the end of a game raises game_number by 1 and exactly one score
\* counter by 1, and no other step of the running loop changes a score counter or
\* game_number.
C6_Step ==
  IF pc = "terminal" /\ pc' = "schedule"
  THEN /\ state'.game_number = state.game_number + 1
       /\ ScoreSum(state') = ScoreSum(state) + 1
       /\ \A k \in {"claude", "gpt", "draws"} :
            state'.scores[k] \in {state.scores[k], state.scores[k] + 1}
  ELSE (pc # "load" /\ pc' # "load") =>
         /\ state'.scores = state.scores
         /\ state'.game_number = state.game_number
C6_ScoreSum ==
  /\ [](store # << >> => ScoreSum(store[1]) = store[1].game_number - 1)
  /\ [][C6_Step]_vars

\* A completed game has been written to the store.
C6_Witness ==
  /\ store # << >>
  /\ store[1].game_number = 2
  /\ ScoreSum(store[1]) = 1
  /\ store[1].status = "finished"

\* C7: the step that completes a game raises only the winner's score by 1 (the
\* draw counter when nobody is mated), raises game_number by 1, empties move_log,
\* resets position_fen to the starting position, clears last_move, sets status to
\* finished, and leaves total_moves and the think-time statistics alone; when its
\* write succeeds the store holds exactly that state.
C7_Step ==
  (pc = "terminal" /\ pc' = "schedule") =>
    /\ state'.scores =
         IF board \in {2, 7} THEN [state.scores EXCEPT !.claude = @ + 1]
         ELSE IF board = 3 THEN [state.scores EXCEPT !.gpt = @ + 1]
         ELSE [state.scores EXCEPT !.draws = @ + 1]
    /\ state'.game_number = state.game_number + 1
    /\ state'.moves = << >>
    /\ state'.fen = STARTING_FEN
    /\ state'.last_move = << >>
    /\ state'.status = "finished"
    /\ state'.total_moves = state.total_moves
    /\ state'.think_times = state.think_times
    /\ faults' = faults => store' = <<state'>>
C7_GameCompletion == [][C7_Step]_vars

\* A game lost by white after two plies has been completed and written.
C7_Witness ==
  /\ pc = "schedule"
  /\ store = <<state>>
  /\ state.scores.gpt = 1
  /\ state.total_moves = 2
  /\ state.moves = << >>

----------------------------------------------------------------------------
(* _record_think on its own: any sequence of calls, for either side, at any times *)

ThinkGaps == {1, HistorySeconds}   \* seconds between two calls
ReadGaps == {0, 1}                 \* seconds between the two clock reads of one call

\* lines 21-32: one call of _record_think(player, ms), gap seconds after the last one
ThinkCall ==
  /\ Len(probe.calls) < MaxCalls
  /\ \E player \in Players, ms \in ProbeElapsed, gap \in ThinkGaps, lag \in ReadGaps :
       /\ state' = RecordThink(state, player, ms, now + gap, now + gap + lag)
       /\ now' = now + gap + lag
       /\ probe' = [probe EXCEPT
                      !.calls = Append(@, [player |-> player, ms |-> ms, ts |-> now + gap])]
  /\ SaveState(state')
  /\ UNCHANGED <<board, pc, move_san, attempt, crashes, call, ret, err>>

ThinkNext == ThinkCall

ThinkSpec == Init /\ [][ThinkNext]_vars

\* The calls made for one side, in order
CallsOf(p) == SelectSeq(probe.calls, LAMBDA c : c.player = p)

RECURSIVE SumMs(_)
SumMs(q) == IF q = << >> THEN 0 ELSE Head(q).ms + SumMs(Tail(q))

\* C9: for each side, count is the number of _record_think calls made for it, total
\* is the sum of their elapsed times, and once the side has a call avg is the
\* integer quotient total // count; a call for one side leaves the other side's
\* statistics as they were.
C9_Step ==
  \A p \in Players :
    Len(CallsOf(p))' = Len(CallsOf(p)) => state'.think_times[p] = state.think_times[p]
C9_ThinkStats ==
  /\ [](\A p \in Players :
          LET t == state.think_times[p] IN
            /\ t.count = Len(CallsOf(p))
            /\ t.total = SumMs(CallsOf(p))
            /\ t.count > 0 =>
                 /\ t.avg * t.count <= t.total
                 /\ t.total < (t.avg + 1) * t.count)
  /\ [][C9_Step]_vars

\* Three calls for one side with total 5: the average is rounded down to 1.
C9_Witness ==
  /\ state.think_times["claude"].count = 3
  /\ state.think_times["claude"].total = 5
  /\ state.think_times["claude"].avg = 1
  /\ state.think_times["gpt"].count = 0

\* C10: after a call that read the clock last at `now`, the history of the side the
\* call was for holds no entry stamped before now minus 30 days, and it is exactly
\* that side's recorded entries stamped within the trailing 30 days, in recording
\* order, the new one included.
C10_HistoryWindow ==
  \A p \in Players :
    LET h == state.think_times[p].history
        made == CallsOf(p)
        kept == SelectSeq(made, LAMBDA c : c.ts >= now - HistorySeconds)
    IN (probe.calls # << >> /\ probe.calls[Len(probe.calls)].player = p) =>
            /\ \A k \in 1 .. Len(h) : h[k].ts >= now - HistorySeconds
            /\ Len(h) = Len(kept)
            /\ \A k \in 1 .. Len(h) : h[k] = [ts |-> kept[k].ts, ms |-> kept[k].ms]
            /\ h # << >>
            /\ h[Len(h)].ts = made[Len(made)].ts

\* An entry exactly 30 days old is kept beside the new one, and an older one is gone.
C10_Witness ==
  LET h == state.think_times["claude"].history IN
    /\ Len(CallsOf("claude")) = 3
    /\ Len(h) = 2
    /\ h[1].ts = now - HistorySeconds
    /\ h[2].ts = now

----------------------------------------------------------------------------
(* update_daily_data on its own: games completed at any non-decreasing times *)

DayGaps == {0, DaySeconds, (YearDays - 1) * DaySeconds}   \* time between two completions

\* lines 160-168 and 240: one more game is completed, gap seconds after the last one
DailyGame ==
  /\ probe.games < MaxDailyGames
  /\ \E gap \in DayGaps :
       /\ gap = 0 => probe.onDay < MaxPerDay
       /\ (now + gap) \div DaySeconds <= YearDays + MaxDailyGames
       /\ now' = now + gap
       /\ state' = [state EXCEPT !.daily_data = UpdateDailyData(@, Today(now + gap))]
       /\ probe' = [probe EXCEPT
                      !.games = @ + 1,
                      !.day = (now + gap) \div DaySeconds,
                      !.onDay = IF gap = 0 THEN @ + 1 ELSE 1]
  /\ UNCHANGED <<store, board, pc, move_san, attempt, crashes, call, ret, err, faults, handed>>

DailyNext == DailyGame

DailySpec == Init /\ [][DailyNext]_vars

\* C8, as claimed: daily_data has at most 14 entries, at most one entry per date
\* label, its entries in chronological order (so the newest is today's), and the
\* newest entry's count is the number of games completed on the current day.
C8_DailyData ==
  LET d == state.daily_data IN
    /\ Len(d) <= KeepDays
    /\ \A i \in 1 .. Len(d) : \A j \in 1 .. Len(d) : d[i].label = d[j].label => i = j
    /\ probe.games > 0 =>
         /\ d # << >>
         /\ d[Len(d)].label = Today(now)
         /\ d[Len(d)].count = probe.onDay

----------------------------------------------------------------------------
(* Claims about the record of a ply, the snapshots and the restart *)

\* The sides of the log s, and the sides that alternate from white over n plies
SidesOf(s) == [i \in 1 .. Len(s) |-> s[i].color]
Alternating(n) == [i \in 1 .. n |-> IF i % 2 = 1 THEN "white" ELSE "black"]

\* C11: the step that records a resolved ply appends exactly one entry to move_log
\* (the notation play_move returned, the side that was to move before the move),
\* raises total_moves by 1, sets position_fen to the position after the move and
\* last_move to the move's squares, flips side_to_move and hands the state to
\* save_state (the store holds it when the write succeeds); within a run of the
\* process no other step of the loop changes total_moves, so it never decreases.
C11_Ply == pc = "play" /\ pc' = "delay"
C11_Step ==
  /\ C11_Ply =>
       /\ ret' # << >>
       /\ ret'[1].move \in LegalMoves(board)
       /\ board' = ret'[1].move.dst
       /\ state'.moves =
            Append(state.moves, [san |-> ret'[1].san,
                                 color |-> IF WhiteToMove(board) THEN "white" ELSE "black"])
       /\ state'.total_moves = state.total_moves + 1
       /\ state'.fen = Fen(board')
       /\ state'.last_move = <<[from |-> ret'[1].move.from, to |-> ret'[1].move.to]>>
       /\ state'.turn # state.turn
       /\ state'.turn = ColorOf(board')
       /\ handed' = <<state'>>
       /\ faults' = faults => store' = <<state'>>
  /\ (~C11_Ply /\ pc # "load" /\ pc' # "load") => state'.total_moves = state.total_moves
  /\ pc' # "load" => state'.total_moves >= state.total_moves
C11_PlyRecorded == [][C11_Step]_vars

\* Black's reply, the second ply of a game, has been recorded and written.
C11_Witness ==
  /\ pc = "delay"
  /\ state.total_moves = 2
  /\ SidesOf(state.moves) = <<"white", "black">>
  /\ state.turn = "white"
  /\ store = <<state>>

\* C12: whenever a Move Source is about to be queried or is being queried (the
\* first query of a ply, and every re-query inside play_move), the state last
\* handed to save_state carries the queried position as position_fen and the
\* queried side as side_to_move, in a game in progress; while the store holds
\* that snapshot, a restart rebuilds exactly that position.
C12_QueryAfterPersist ==
  pc \in {"ask", "play"} =>
    /\ handed # << >>
    /\ handed[1].fen = Fen(board)
    /\ handed[1].turn = (IF WhiteToMove(board) THEN "white" ELSE "black")
    /\ handed[1].status = "playing"
    /\ store = handed => ResumeBoard(Merge(DefaultState, store)) = board

\* Black is about to be asked again, for the second time, after white's e4.
C12_Witness ==
  /\ pc = "play"
  /\ board = 1
  /\ attempt = 2
  /\ ~Accepts(board, move_san)
  /\ store = handed

\* The fields of the Match State a failed Move Source call must leave alone
PlyFields(s) ==
  [position_fen |-> s.fen, move_log |-> s.moves, total_moves |-> s.total_moves,
   last_move |-> s.last_move, side_to_move |-> s.turn, scores |-> s.scores,
   game_number |-> s.game_number]

\* C13: a Move Source call that raises, as the first query of a ply or as a
\* re-query inside play_move, leaves the position and position_fen, move_log,
\* total_moves, last_move, side_to_move, scores and game_number as they were; the
\* loop then waits, changing nothing, and asks for the same ply on the same
\* position again.  Nothing in the state counts the failures, so the retries have
\* no limit.
C13_Step ==
  /\ (pc \in {"ask", "play"} /\ pc' = "backoff") =>
       /\ err' \in {"ask", "requery"}
       /\ board' = board
       /\ PlyFields(state') = PlyFields(state)
  /\ (pc = "backoff" /\ pc' # "load") =>
       /\ pc' = "check"
       /\ board' = board
       /\ state' = state
  /\ (pc = "check" /\ err # "none" /\ pc' # "load") =>
       /\ pc' = "ask"
       /\ board' = board
       /\ PlyFields(state') = PlyFields(state)
C13_FailedCallRetried == [][C13_Step]_vars

\* After white's e4 a re-query of black has raised and the wait is over: the ply is
\* about to be asked again.
C13_Witness ==
  /\ pc = "check"
  /\ err = "requery"
  /\ board = 1
  /\ state.total_moves = 1
  /\ Len(state.moves) = 1

\* C14: entering the loop (line 175), in particular right after a restart: when the
\* loaded status is in progress and the loaded position_fen is not the starting
\* position, play continues on exactly the position that FEN encodes, with the
\* loaded side to move; when that FEN cannot be rebuilt, play continues from the
\* starting position and the loop goes on without an error; when the status is
\* finished or the FEN is the starting position, the game starts from the starting
\* position.
C14_Step ==
  (pc = "top" /\ pc' # "load") =>
    /\ pc' = "check"
    /\ state'.status = "playing"
    /\ IF state.status = "playing" /\ state.fen # STARTING_FEN
       THEN IF \E n \in Nodes : Fen(n) = state.fen
            THEN /\ Fen(board') = state.fen
                 /\ state.turn = (IF WhiteToMove(board') THEN "white" ELSE "black")
            ELSE board' = StartNode
       ELSE board' = StartNode
C14_ResumeOnEntry == [][C14_Step]_vars

\* A restart has loaded a record of a game in progress whose FEN is damaged, and
\* the loop has gone on from the starting position.
C14_Witness ==
  /\ pc = "check"
  /\ crashes = 1
  /\ state.fen = DamagedFen
  /\ state.status = "playing"
  /\ state.total_moves = 1
  /\ board = StartNode

\* C15: next_game_at is set only while the status is finished, in the memory of
\* the process and in the store, and is never set while a game is in progress.
C15_NextGameAtOnlyBetweenGames ==
  /\ state.next_game_at # << >> => state.status = "finished"
  /\ (store # << >> /\ store[1].next_game_at # << >>) => store[1].status = "finished"
  /\ pc \in {"check", "ask", "play", "delay", "backoff", "terminal"} =>
       state.next_game_at = << >>

\* The moves that lead from the starting position to the node b of the game graph
RECURSIVE PathTo(_)
PathTo(b) ==
  IF b = StartNode THEN << >>
  ELSE IF b = 6 THEN PathTo(5)
  ELSE LET m == CHOOSE x \in Moves : x.dst = b /\ x.src # b
       IN  Append(PathTo(m.src), m)

\* C16: while a game is being played, move_log is exactly the plies applied in
\* that game so far, their sides alternating from white; it is empty whenever the
\* board is in the starting position, also after a restart whose FEN could not be
\* rebuilt.
C16_MoveLogOfCurrentGame ==
  pc \in {"check", "ask", "play", "delay", "backoff", "terminal"} =>
    /\ Len(state.moves) = Len(PathTo(board))
    /\ \A i \in 1 .. Len(state.moves) :
         /\ Denotes(PathTo(board)[i], state.moves[i].san)
         /\ state.moves[i].color = Alternating(Len(state.moves))[i]
    /\ board = StartNode => state.moves = << >>

----------------------------------------------------------------------------
(* The loop under fair scheduling *)

\* A Move Source call that returns a text: the first query of a ply, and the
\* re-query after the rejected attempt number a
AskAnswered == AskFirst /\ pc' = "play"
Requeried(a) == PlayReject /\ attempt = a /\ pc' = "play"

\* The steps the loop takes on its own: at each place of the loop at most one of
\* them is enabled.
LoopStep ==
  \/ LoadState \/ LoopTop \/ GameOver \/ TurnPersist \/ PlayAccept \/ PlayFallback
  \/ MoveDelay \/ Backoff \/ EndGame \/ ScheduleNext \/ WakeUp

\* The thread of game_loop keeps running (line 290: every step it can take it
\* takes, every sleep ends), and a Move Source that is asked again and again
\* eventually answers.  Restarts and store faults are not forced.
Fairness ==
  /\ WF_vars(LoopStep)
  /\ SF_vars(AskAnswered)
  /\ \A a \in 0 .. (MaxRetries - 1) : SF_vars(Requeried(a))
LiveSpec == Init /\ [][Next]_vars /\ Fairness

\* The model records at most MaxThink answers per side; a side at that bound is
\* never answered again.
ThinkCapped == \E p \in Players : state.think_times[p].count >= MaxThink

----------------------------------------------------------------------------
(* Claims about the snapshots *)

\* C18: at every point where the loop waits (a Move Source is being queried, as
\* the first query of a ply or as a re-query; the pause after a move; the pause
\* after a failed call; the wait between two games), the Match State in memory
\* is the state most recently handed to save_state.
C18_SavedBeforeWaiting ==
  pc \in {"ask", "play", "delay", "backoff", "sleep"} => handed = <<state>>

\* A re-query is about to be made right after _record_think recorded and saved
\* the previous answer.
C18_Witness ==
  /\ pc = "play"
  /\ attempt = 1
  /\ ~Accepts(board, move_san)
  /\ state.think_times[PlayerOf(board)].count >= 2
  /\ handed = <<state>>

\* C19: in every state the store holds, turn is the side to move of the position
\* that fen encodes (white for the starting position), the snapshots of the reset
\* after a game and of the wait between games included.
C19_TurnAgreesWithFen ==
  (store # << >> /\ FenParses(store[1].fen)) =>
    store[1].turn = (IF WhiteToMove(SetFen(store[1].fen)) THEN "white" ELSE "black")
\* The same agreement for the snapshots of a game in progress only.
C19_DuringGames ==
  (store # << >> /\ FenParses(store[1].fen) /\ store[1].status = "playing") =>
    store[1].turn = (IF WhiteToMove(SetFen(store[1].fen)) THEN "white" ELSE "black")
\* The FEN of a position in which a game of the graph has ended
TerminalFen(f) == \E n \in Nodes : Fen(n) = f /\ IsGameOver(n)

\* C20: while no store request has failed: once the last ply of a game is in the
\* store, the loop does nothing more with that game than score it, wherever the
\* process is restarted (a restart comes back to a finished board and no Move
\* Source is asked again); and the stored game_number changes only when a finished
\* board whose position is the stored one is scored, game_number and the sum of the
\* scores going up by exactly 1.
C20_Heading ==
  (faults = 0 /\ store # << >> /\ store[1].status = "playing" /\ TerminalFen(store[1].fen)) =>
    /\ pc \in {"delay", "check", "terminal", "load", "top"}
    /\ pc \in {"check", "terminal"} => IsGameOver(board)
C20_Step ==
  (faults' = 0 /\ store # << >> /\ store' # << >>
     /\ store'[1].game_number # store[1].game_number) =>
    /\ pc = "terminal"
    /\ IsGameOver(board)
    /\ store[1].fen = Fen(board)
    /\ store[1].status = "playing"
    /\ store'[1].game_number = store[1].game_number + 1
    /\ ScoreSum(store'[1]) = ScoreSum(store[1]) + 1
    /\ store'[1].status = "finished"
    /\ store'[1].fen = STARTING_FEN
C20_ScoredOnce == [](C20_Heading) /\ [][C20_Step]_vars

====
